---- MODULE Spec2Model ----
(***************************************************************************)
(* A model of centipede::WorkDir (src/centipede/workdir.cc): the path      *)
(* addressing scheme of a sharded fuzzing campaign.  Strings and paths are *)
(* sequences of one-character strings, so that formatting, parsing and     *)
(* path splitting are computed the way the code computes them.             *)
(***************************************************************************)
EXTENDS Integers, Sequences, FiniteSets, TLC

VARIABLES
  wd,          \* wd[p]: the identity (WorkDir) process p was constructed with
  pc,          \* pc[p]: "running", or "aborted" once a CHECK of p has failed
  last,        \* last[p]: the last call of process p and what it returned
  written,     \* the artifacts written so far: [path, by]
  fs,          \* the filesystem: the coverage directory's state, the entries
  enumerated   \* the last EnumerateRawCoverageProfiles call and its result

vars == <<wd, pc, last, written, fs, enumerated>>

-----------------------------------------------------------------------------
(* Bounds of the model. *)

\* Shard indices 0..MaxSmallShard are explored next to the ones around 10^width.
MaxSmallShard == 1
\* The longest digit run of a hand-made (not generated) shard file extension
\* is kDigitsInShardIndex - 2 + MaxDigitRun.
MaxDigitRun == 3
\* How many artifacts one shard process writes in the write-safety model.
MaxWrites == 1
\* How many entries the filesystem of the enumeration model holds at most.
MaxEntries == 2

-----------------------------------------------------------------------------
(* String literals of the source. *)

Slash == "/"
Dot == "."
DotStr == <<".">>
DashStr == <<"-">>
StarStr == <<"*">>

\* "corpus"
kCorpusShardStem == <<"c", "o", "r", "p", "u", "s">>

\* The fixed decimal width of a shard index in a path (declared in workdir.h,
\* used at workdir.cc:62 and :87); 6 in the documented layout.
kDigitsInShardIndex == 6

DecimalDigits == <<"0", "1", "2", "3", "4", "5", "6", "7", "8", "9">>
DigitChars == {DecimalDigits[k] : k \in 1..10}
\* absl::ascii_isspace: space, \t, \n, \v, \f, \r (the model's inputs use two)
SpaceChars == {" ", "\t"}

-----------------------------------------------------------------------------
(* std::string / absl helpers. *)

RECURSIVE Pow10(_)
Pow10(k) == IF k = 0 THEN 1 ELSE 10 * Pow10(k - 1)

\* The decimal representation of n (no padding): what %d prints.
RECURSIVE Decimal(_)
Decimal(n) ==
  IF n < 10 THEN <<DecimalDigits[n + 1]>>
  ELSE Decimal(n \div 10) \o <<DecimalDigits[(n % 10) + 1]>>

RECURSIVE Zeros(_)
Zeros(k) == IF k <= 0 THEN <<>> ELSE <<"0">> \o Zeros(k - 1)

\* Prints n without padding: the zero flag and the width are dropped.
FormatUnpadded(width, n) == Decimal(n)

\* Prints the last width digits of n only: the width is taken as a maximum.
FormatZeroPaddedTruncating(width, n) ==
  LET d == Zeros(width - Len(Decimal(n))) \o Decimal(n)
  IN  SubSeq(d, Len(d) - width + 1, Len(d))

\* absl::StrFormat("%0*d", width, n): a minimum width, zero filled; a longer
\* number is printed whole.
FormatZeroPadded(width, n) ==
  LET d == Decimal(n) IN Zeros(width - Len(d)) \o d

DigitValue(c) == CHOOSE k \in 0..9 : DecimalDigits[k + 1] = c

\* The number the first k digits of s spell.
RECURSIVE ParseDigitsUpTo(_, _)
ParseDigitsUpTo(s, k) ==
  IF k = 0 THEN 0 ELSE 10 * ParseDigitsUpTo(s, k - 1) + DigitValue(s[k])

ParseDigits(s) == ParseDigitsUpTo(s, Len(s))

AllDigits(s) == \A k \in 1..Len(s) : s[k] \in DigitChars

\* The index of the last character of s[1..k] that is not in set, 0 if none.
RECURSIVE LastNotIn(_, _, _)
LastNotIn(s, set, k) ==
  IF k = 0 THEN 0
  ELSE IF s[k] \notin set THEN k
  ELSE LastNotIn(s, set, k - 1)

\* The index of the first character of s[k..] that is not in set, Len(s)+1 if
\* none.
RECURSIVE FirstNotIn(_, _, _)
FirstNotIn(s, set, k) ==
  IF k > Len(s) THEN k
  ELSE IF s[k] \notin set THEN k
  ELSE FirstNotIn(s, set, k + 1)

StripLeadingSpace(s) == SubSeq(s, FirstNotIn(s, SpaceChars, 1), Len(s))

StripTrailingSpace(s) == SubSeq(s, 1, LastNotIn(s, SpaceChars, Len(s)))

StripLeadingZeros(s) == SubSeq(s, FirstNotIn(s, {"0"}, 1), Len(s))

\* std::numeric_limits<size_t>::max() = 18446744073709551615, as digits.
Uint64MaxDigits ==
  <<"1", "8", "4", "4", "6", "7", "4", "4", "0", "7", "3", "7", "0", "9", "5",
    "5", "1", "6", "1", "5">>

\* a <= b for two digit strings of the same length.
RECURSIVE DigitsLeq(_, _)
DigitsLeq(a, b) ==
  IF a = <<>> THEN TRUE
  ELSE IF DigitValue(a[1]) # DigitValue(b[1])
       THEN DigitValue(a[1]) < DigitValue(b[1])
  ELSE DigitsLeq(Tail(a), Tail(b))

\* Whether the number the digits spell is in the range of size_t.
FitsUint64(digits) ==
  LET d == StripLeadingZeros(digits)
  IN  \/ Len(d) < Len(Uint64MaxDigits)
      \/ Len(d) = Len(Uint64MaxDigits) /\ DigitsLeq(d, Uint64MaxDigits)

\* absl::SimpleAtoi(text, &size_t): surrounding ASCII whitespace is skipped,
\* one sign is consumed, a '-' is refused for an unsigned result, and what is
\* left must be a non-empty run of decimal digits in range.
SimpleAtoi(text) ==
  LET t == StripTrailingSpace(StripLeadingSpace(text))
      negative == t # <<>> /\ t[1] = "-"
      body == IF t # <<>> /\ t[1] \in {"-", "+"} THEN Tail(t) ELSE t
  IN  IF t = <<>> \/ body = <<>> \/ negative \/ ~AllDigits(body)
        \/ ~FitsUint64(body)
      THEN [ok |-> FALSE, value |-> 0]
      ELSE [ok |-> TRUE, value |-> ParseDigits(body)]

-----------------------------------------------------------------------------
(* std::filesystem::path (POSIX). *)

\* The index of the last c of s[1..k], 0 if there is none.
RECURSIVE LastIndexOf(_, _, _)
LastIndexOf(s, c, k) ==
  IF k = 0 THEN 0
  ELSE IF s[k] = c THEN k
  ELSE LastIndexOf(s, c, k - 1)

LastSlash(p) == LastIndexOf(p, Slash, Len(p))

LastDot(f) == LastIndexOf(f, Dot, Len(f))

StripTrailingSlashes(p) == SubSeq(p, 1, LastNotIn(p, {Slash}, Len(p)))

\* path::filename(): what follows the last separator.
Filename(p) == SubSeq(p, LastSlash(p) + 1, Len(p))

\* path::extension(): from the last '.' of the filename, unless that dot is
\* the filename's first character or the filename is "." or "..".
Extension(p) ==
  LET f == Filename(p)
      k == LastDot(f)
  IN  IF k <= 1 \/ f = <<".", ".">> THEN <<>> ELSE SubSeq(f, k, Len(f))

\* path::stem(): the filename without its extension.
Stem(p) ==
  LET f == Filename(p) IN SubSeq(f, 1, Len(f) - Len(Extension(p)))

\* Cuts the path after its last separator and keeps that separator.
ParentPathKeepingSeparator(p) == SubSeq(p, 1, LastSlash(p))

\* path::parent_path(): the path up to the end of the component before the
\* last one; a path with no relative part is its own parent.
ParentPath(p) ==
  LET q == SubSeq(p, 1, LastSlash(p))
      r == StripTrailingSlashes(q)
  IN  IF StripTrailingSlashes(p) = <<>> THEN p
      ELSE IF r = <<>> /\ q # <<>> THEN <<Slash>>
      ELSE r

\* path::operator/ : an absolute right side replaces the left one; a
\* separator is added only after a left side that has a filename.
PathAppend(p, q) ==
  IF q # <<>> /\ q[1] = Slash THEN q
  ELSE IF Filename(p) # <<>> THEN p \o <<Slash>> \o q
  ELSE p \o q

-----------------------------------------------------------------------------
(* String literals of workdir.cc. *)

\* "distilled-"
S_distilled ==
  <<"d", "i", "s", "t", "i", "l", "l", "e", "d", "-">>
\* "features."
S_features ==
  <<"f", "e", "a", "t", "u", "r", "e", "s", ".">>
\* "distilled-features-"
S_distilled_features ==
  <<"d", "i", "s", "t", "i", "l", "l", "e", "d", "-", "f", "e", "a", "t", "u", "r", "e", "s", "-">>
\* "coverage-report-"
S_coverage_report ==
  <<"c", "o", "v", "e", "r", "a", "g", "e", "-", "r", "e", "p", "o", "r", "t", "-">>
\* "corpus-stats-"
S_corpus_stats ==
  <<"c", "o", "r", "p", "u", "s", "-", "s", "t", "a", "t", "s", "-">>
\* "fuzzing-stats-"
S_fuzzing_stats ==
  <<"f", "u", "z", "z", "i", "n", "g", "-", "s", "t", "a", "t", "s", "-">>
\* "source-coverage-report-"
S_source_coverage_report ==
  <<"s", "o", "u", "r", "c", "e", "-", "c", "o", "v", "e", "r", "a", "g", "e", "-", "r", "e", "p", "o", "r", "t", "-">>
\* "rusage-report-"
S_rusage_report ==
  <<"r", "u", "s", "a", "g", "e", "-", "r", "e", "p", "o", "r", "t", "-">>
\* ".txt"
S_txt ==
  <<".", "t", "x", "t">>
\* ".json"
S_json ==
  <<".", "j", "s", "o", "n">>
\* ".csv"
S_csv ==
  <<".", "c", "s", "v">>
\* "clang_coverage."
S_clang_coverage ==
  <<"c", "l", "a", "n", "g", "_", "c", "o", "v", "e", "r", "a", "g", "e", ".">>
\* ".%m.profraw"
S_m_profraw ==
  <<".", "%", "m", ".", "p", "r", "o", "f", "r", "a", "w">>
\* "clang_coverage.profdata"
S_profdata ==
  <<"c", "l", "a", "n", "g", "_", "c", "o", "v", "e", "r", "a", "g", "e", ".", "p", "r", "o", "f", "d", "a", "t", "a">>
\* "crashes"
S_crashes ==
  <<"c", "r", "a", "s", "h", "e", "s">>
\* "binary-info"
S_binary_info ==
  <<"b", "i", "n", "a", "r", "y", "-", "i", "n", "f", "o">>
\* ".profraw"
S_profraw ==
  <<".", "p", "r", "o", "f", "r", "a", "w">>

-----------------------------------------------------------------------------
(* The results of a call: a CHECK that fails aborts the process. *)

Returned(v) == [ok |-> TRUE, value |-> v]
Aborted == [ok |-> FALSE, value |-> <<>>]

-----------------------------------------------------------------------------
(* namespace { NormalizeAnnotation } *)

\* Prepends the dot without the CHECK_NE on the first character.
NormalizeAnnotationUnchecked(annotation) ==
  IF annotation = <<>> THEN Returned(<<>>)
  ELSE Returned(DotStr \o annotation)

NormalizeAnnotation(annotation) ==
  IF annotation = <<>> THEN Returned(<<>>)
  ELSE IF annotation[1] = Dot THEN Aborted
  ELSE Returned(DotStr \o annotation)

-----------------------------------------------------------------------------
(* WorkDir::ShardedFileInfo *)

ShardedFileInfo(base_dir, rel_prefix, my_shard_index) ==
  [prefix_ |-> PathAppend(base_dir, rel_prefix),
   my_shard_index_ |-> my_shard_index]

ShardPath(info, shard_index) ==
  info.prefix_ \o FormatZeroPadded(kDigitsInShardIndex, shard_index)

MyShardPath(info) == ShardPath(info, info.my_shard_index_)

AllShardsGlob(info) == info.prefix_ \o StarStr

-----------------------------------------------------------------------------
(* WorkDir *)

WorkDir(workdir, binary_name, binary_hash, my_shard_index) ==
  [workdir_ |-> workdir, binary_name_ |-> binary_name,
   binary_hash_ |-> binary_hash, my_shard_index_ |-> my_shard_index]

FromCorpusShardPath(corpus_shard_path, binary_name, binary_hash) ==
  LET dir == ParentPath(corpus_shard_path)
      stem == Stem(corpus_shard_path)
      dot_ext == Extension(corpus_shard_path)
      ext == Tail(dot_ext)
      parsed == SimpleAtoi(ext)
  IN  IF stem # kCorpusShardStem THEN Aborted
      ELSE IF dot_ext = <<>> \/ dot_ext[1] # Dot THEN Aborted
      ELSE IF Len(ext) # kDigitsInShardIndex THEN Aborted
      ELSE IF ~parsed.ok THEN Aborted
      ELSE Returned(WorkDir(dir, binary_name, binary_hash, parsed.value))

CoverageDirPath(w) ==
  PathAppend(w.workdir_, w.binary_name_ \o DashStr \o w.binary_hash_)

CrashReproducerDirPath(w) == PathAppend(w.workdir_, S_crashes)

BinaryInfoDirPath(w) == PathAppend(CoverageDirPath(w), S_binary_info)

CorpusFiles(w) ==
  ShardedFileInfo(w.workdir_, kCorpusShardStem \o DotStr, w.my_shard_index_)

DistilledCorpusFiles(w) ==
  ShardedFileInfo(w.workdir_, S_distilled \o w.binary_name_ \o DotStr,
                  w.my_shard_index_)

FeaturesFiles(w) ==
  ShardedFileInfo(CoverageDirPath(w), S_features, w.my_shard_index_)

DistilledFeaturesFiles(w) ==
  ShardedFileInfo(CoverageDirPath(w),
                  S_distilled_features \o w.binary_name_ \o DotStr,
                  w.my_shard_index_)

\* The shared shape of the five report paths: StrFormat("<kind>%s.%0*d%s<ext>").
ReportFileName(kind_prefix, w, normalized, ext) ==
  kind_prefix \o w.binary_name_ \o DotStr
    \o FormatZeroPadded(kDigitsInShardIndex, w.my_shard_index_)
    \o normalized \o ext

CoverageReportPath(w, annotation) ==
  LET a == NormalizeAnnotation(annotation)
  IN  IF ~a.ok THEN Aborted
      ELSE Returned(PathAppend(w.workdir_,
                      ReportFileName(S_coverage_report, w, a.value, S_txt)))

CorpusStatsPath(w, annotation) ==
  LET a == NormalizeAnnotation(annotation)
  IN  IF ~a.ok THEN Aborted
      ELSE Returned(PathAppend(w.workdir_,
                      ReportFileName(S_corpus_stats, w, a.value, S_json)))

FuzzingStatsPath(w, annotation) ==
  LET a == NormalizeAnnotation(annotation)
  IN  IF ~a.ok THEN Aborted
      ELSE Returned(PathAppend(w.workdir_,
                      ReportFileName(S_fuzzing_stats, w, a.value, S_csv)))

SourceBasedCoverageRawProfilePath(w) ==
  PathAppend(CoverageDirPath(w),
             S_clang_coverage
               \o FormatZeroPadded(kDigitsInShardIndex, w.my_shard_index_)
               \o S_m_profraw)

SourceBasedCoverageIndexedProfilePath(w) ==
  PathAppend(CoverageDirPath(w), S_profdata)

SourceBasedCoverageReportPath(w, annotation) ==
  LET a == NormalizeAnnotation(annotation)
  IN  IF ~a.ok THEN Aborted
      ELSE Returned(PathAppend(w.workdir_,
                      ReportFileName(S_source_coverage_report, w, a.value, <<>>)))

RUsageReportPath(w, annotation) ==
  LET a == NormalizeAnnotation(annotation)
  IN  IF ~a.ok THEN Aborted
      ELSE Returned(PathAppend(w.workdir_,
                      ReportFileName(S_rusage_report, w, a.value, S_txt)))

-----------------------------------------------------------------------------
(* The inputs the model draws from. *)

Procs == {1, 2}

ShardIndices ==
  (0..MaxSmallShard)
    \cup {7, Pow10(kDigitsInShardIndex) - 1, Pow10(kDigitsInShardIndex)}

RootDirs ==
  {<<>>, <<"/">>, <<"d">>, <<"d", "/">>, <<"d", "/", "/">>, <<"/", "d", "/", "e">>}

BinaryNames == {<<"t">>, <<"t", "-", "u">>, <<"t", ".", "u">>}

BinaryHashes == {<<"h">>, <<"u", "-", "h">>}

\* The scenario of the documentation: /data/run1, target, abcd1234, shard 7.
ScenarioIdentity ==
  WorkDir(<<"/", "d", "a", "t", "a", "/", "r", "u", "n", "1">>,
          <<"t", "a", "r", "g", "e", "t">>,
          <<"a", "b", "c", "d", "1", "2", "3", "4">>, 7)

Identities ==
  {WorkDir(r, <<"t">>, <<"h">>, i) : r \in RootDirs, i \in ShardIndices}
    \cup {ScenarioIdentity}

Annotations ==
  {<<>>, <<"f", "o", "o">>, <<".", "f", "o", "o">>, <<".">>, <<"0">>,
   <<"a", ".", "b">>}

Groups == {"corpus", "distilled_corpus", "features", "distilled_features"}

ReportKinds ==
  {"coverage_report", "corpus_stats", "fuzzing_stats",
   "source_coverage_report", "rusage_report"}

\* The accessor of WorkDir that builds group g.
Files(g, w) ==
  CASE g = "corpus" -> CorpusFiles(w)
    [] g = "distilled_corpus" -> DistilledCorpusFiles(w)
    [] g = "features" -> FeaturesFiles(w)
    [] g = "distilled_features" -> DistilledFeaturesFiles(w)

\* The report path function of WorkDir for kind k.
ReportPath(k, w, annotation) ==
  CASE k = "coverage_report" -> CoverageReportPath(w, annotation)
    [] k = "corpus_stats" -> CorpusStatsPath(w, annotation)
    [] k = "fuzzing_stats" -> FuzzingStatsPath(w, annotation)
    [] k = "source_coverage_report" -> SourceBasedCoverageReportPath(w, annotation)
    [] k = "rusage_report" -> RUsageReportPath(w, annotation)

\* Shard file names that no ShardPath call produced: a stem, and an extension
\* made of a leading character, a zero-padded number and a trailing character.
HandMadeStems ==
  {<<"c", "o", "r", "p", "u">>, kCorpusShardStem \o <<"x">>,
   kCorpusShardStem \o <<".", "0">>, <<>>}

HandMadeExtensions ==
  {<<>>, DotStr}
    \cup {DotStr \o lead \o FormatZeroPadded(k, n) \o trail :
            lead \in {<<>>, <<"+">>, <<"-">>, <<" ">>, <<"x">>},
            k \in (kDigitsInShardIndex - 2)..(kDigitsInShardIndex - 2 + MaxDigitRun),
            n \in {7},
            trail \in {<<>>, <<" ">>, <<"x">>}}

HandMadePaths(w) ==
  {PathAppend(w.workdir_, kCorpusShardStem \o e) : e \in HandMadeExtensions}
    \cup {PathAppend(w.workdir_,
                     st \o DotStr \o FormatZeroPadded(kDigitsInShardIndex, 7)) :
            st \in HandMadeStems}

-----------------------------------------------------------------------------
(* Calls and their records. *)

NoId == WorkDir(<<>>, <<>>, <<>>, 0)

Call(op, group, index, input, ok, path, id) ==
  [op |-> op, group |-> group, index |-> index, input |-> input,
   ok |-> ok, path |-> path, id |-> id]

NoCall == Call("none", "none", 0, <<>>, TRUE, <<>>, NoId)

ShardPathOps == {"ShardPath", "MyShardPath"}

\* info.ShardPath(shard_index) of group g, called by process p.
CallShardPath(p, g, i) ==
  /\ pc[p] = "running"
  /\ last' = [last EXCEPT ![p] =
       Call("ShardPath", g, i, <<>>, TRUE, ShardPath(Files(g, wd[p]), i), NoId)]
  /\ UNCHANGED <<wd, pc, written, fs, enumerated>>

\* info.MyShardPath() of group g, called by process p.
CallMyShardPath(p, g) ==
  /\ pc[p] = "running"
  /\ last' = [last EXCEPT ![p] =
       Call("MyShardPath", g, wd[p].my_shard_index_, <<>>, TRUE,
            MyShardPath(Files(g, wd[p])), NoId)]
  /\ UNCHANGED <<wd, pc, written, fs, enumerated>>

\* info.AllShardsGlob() of group g, called by process p.
CallAllShardsGlob(p, g) ==
  /\ pc[p] = "running"
  /\ last' = [last EXCEPT ![p] =
       Call("AllShardsGlob", g, 0, <<>>, TRUE, AllShardsGlob(Files(g, wd[p])),
            NoId)]
  /\ UNCHANGED <<wd, pc, written, fs, enumerated>>

\* WorkDir::FromCorpusShardPath(path, binary_name, binary_hash) with the
\* caller's binary name and hash; group and index tell where the path came
\* from ("none": the path was not produced by a ShardPath call).
DecodePath(p, path, group, index) ==
  LET r == FromCorpusShardPath(path, wd[p].binary_name_, wd[p].binary_hash_)
  IN  /\ pc[p] = "running"
      /\ last' = [last EXCEPT ![p] =
           Call("FromCorpusShardPath", group, index, path, r.ok, <<>>,
                IF r.ok THEN r.value ELSE NoId)]
      /\ pc' = [pc EXCEPT ![p] = IF r.ok THEN "running" ELSE "aborted"]
      /\ UNCHANGED <<wd, written, fs, enumerated>>

\* The path the process has just computed is decoded.
CallFromCorpusShardPathOfShardPath(p) ==
  /\ last[p].op \in ShardPathOps
  /\ DecodePath(p, last[p].path, last[p].group, last[p].index)

\* Some other path is decoded.
CallFromCorpusShardPathOfOther(p) ==
  \E path \in HandMadePaths(wd[p]) : DecodePath(p, path, "none", 0)

\* One of the five report path functions, called by process p.
CallReportPath(p, k, annotation) ==
  LET r == ReportPath(k, wd[p], annotation)
  IN  /\ pc[p] = "running"
      /\ last' = [last EXCEPT ![p] =
           Call(k, "none", wd[p].my_shard_index_, annotation, r.ok,
                IF r.ok THEN r.value ELSE <<>>, NoId)]
      /\ pc' = [pc EXCEPT ![p] = IF r.ok THEN "running" ELSE "aborted"]
      /\ UNCHANGED <<wd, written, fs, enumerated>>

\* The filesystem: whether the coverage directory can be iterated ("ok"), does
\* not exist ("missing"), cannot be read ("unreadable") or is not a directory
\* ("notdir"), and the directory entries [parent, name, kind].
NoFs == [dir |-> "missing", entries |-> {}]

NoEnumeration ==
  [called |-> FALSE, ok |-> TRUE, dir_error |-> FALSE, earlier_error |-> FALSE,
   raw_profiles |-> {}, snapshot |-> NoFs]

\* One process, its codec and its report paths.
Init ==
  /\ \E w \in Identities : wd = [p \in Procs |-> w]
  /\ pc = [p \in Procs |-> "running"]
  /\ last = [p \in Procs |-> NoCall]
  /\ written = {}
  /\ fs = NoFs
  /\ enumerated = NoEnumeration

Next ==
  \/ \E g \in Groups, i \in ShardIndices : CallShardPath(1, g, i)
  \/ \E g \in Groups : CallMyShardPath(1, g)
  \/ \E g \in Groups : CallAllShardsGlob(1, g)
  \/ CallFromCorpusShardPathOfShardPath(1)
  \/ CallFromCorpusShardPathOfOther(1)
  \/ \E k \in ReportKinds, a \in Annotations : CallReportPath(1, k, a)

Spec == Init /\ [][Next]_vars

-----------------------------------------------------------------------------
(* Properties of the codec and of the report paths, checked under Spec. *)

Limit == Pow10(kDigitsInShardIndex)

RECURSIVE Slashes(_)
Slashes(k) == IF k = 0 THEN <<>> ELSE <<Slash>> \o Slashes(k - 1)

\* A corpus shard path of an in-range shard index has just been decoded.
RoundTripCase(c) ==
  /\ c.op = "FromCorpusShardPath"
  /\ c.group = "corpus"
  /\ c.index < Limit

\* C1 (as stated): decoding the path ShardPath(shardIndex) of the corpus group
\* succeeds and returns the shard index and exactly the root directory the
\* path was built from.
C1_RoundTripExactRoot ==
  \A p \in Procs :
    RoundTripCase(last[p]) =>
      /\ last[p].ok
      /\ last[p].id.my_shard_index_ = last[p].index
      /\ last[p].id.workdir_ = wd[p].workdir_

\* C1 (amended): decoding the path ShardPath(shardIndex) of the corpus group,
\* shardIndex < 10^width, succeeds and returns the shard index, the binary
\* name and hash passed in, and the root directory without its trailing
\* separators ("/" for a root directory made of separators only).
C1_RoundTrip ==
  \A p \in Procs :
    RoundTripCase(last[p]) =>
      LET got == last[p].id.workdir_
          root == wd[p].workdir_
      IN  /\ last[p].ok
          /\ last[p].id.my_shard_index_ = last[p].index
          /\ last[p].id.binary_name_ = wd[p].binary_name_
          /\ last[p].id.binary_hash_ = wd[p].binary_hash_
          /\ \E k \in 0..Len(root) : root = got \o Slashes(k)
          /\ got # <<>> /\ got[Len(got)] = Slash => got = <<Slash>>
          /\ (root = <<>> \/ root[Len(root)] # Slash \/ root = <<Slash>>)
               => got = root

\* The round trip of a root directory written with a trailing separator.
C1_Witness ==
  /\ RoundTripCase(last[1])
  /\ last[1].ok
  /\ last[1].index = 7
  /\ wd[1].workdir_ = <<"d", "/">>
  /\ last[1].id.workdir_ = <<"d">>

\* C2: a call that renders a shard index of more than width digits fails.
C2_EncodeOverflowFails ==
  \A p \in Procs :
    (last[p].op \in ShardPathOps \cup ReportKinds /\ last[p].index >= Limit)
      => ~last[p].ok

\* A file name "corpus." followed by exactly width decimal digits.
IsCorpusShardFileName(f) ==
  LET n == Len(kCorpusShardStem) + 1
  IN  /\ Len(f) = n + kDigitsInShardIndex
      /\ SubSeq(f, 1, n) = kCorpusShardStem \o DotStr
      /\ \A k \in (n + 1)..Len(f) : f[k] \in DigitChars

\* C3: FromCorpusShardPath succeeds exactly on the paths whose file name is
\* "corpus." followed by width decimal digits, and aborts on all others.
C3_DecodeOnlyDigits ==
  \A p \in Procs :
    last[p].op = "FromCorpusShardPath" =>
      /\ last[p].ok <=> IsCorpusShardFileName(Filename(last[p].input))
      /\ ~last[p].ok => pc[p] = "aborted" /\ last[p].id = NoId

\* The file name prefix and the final extension of each report kind.
KindPrefix(k) ==
  CASE k = "coverage_report" -> S_coverage_report
    [] k = "corpus_stats" -> S_corpus_stats
    [] k = "fuzzing_stats" -> S_fuzzing_stats
    [] k = "source_coverage_report" -> S_source_coverage_report
    [] k = "rusage_report" -> S_rusage_report

KindExt(k) ==
  CASE k = "coverage_report" -> S_txt
    [] k = "corpus_stats" -> S_json
    [] k = "fuzzing_stats" -> S_csv
    [] k = "source_coverage_report" -> <<>>
    [] k = "rusage_report" -> S_txt

\* "{kindPrefix}-{binaryName}.{paddedShardIndex}"
ReportHead(k, w) ==
  KindPrefix(k) \o w.binary_name_ \o DotStr
    \o FormatZeroPadded(kDigitsInShardIndex, w.my_shard_index_)

\* C6: a report path called with an empty annotation names the file
\* head+ext; with an annotation A not starting with '.', head+".A"+ext; with
\* one starting with '.', the call aborts and returns no path.
C6_AnnotationNormalization ==
  \A p \in Procs :
    last[p].op \in ReportKinds =>
      LET k == last[p].op
          a == last[p].input
          head == ReportHead(k, wd[p])
      IN  /\ a = <<>> =>
                /\ last[p].ok
                /\ Filename(last[p].path) = head \o KindExt(k)
          /\ (a # <<>> /\ a[1] # Dot) =>
                /\ last[p].ok
                /\ Filename(last[p].path) = head \o DotStr \o a \o KindExt(k)
          /\ (a # <<>> /\ a[1] = Dot) =>
                /\ ~last[p].ok
                /\ last[p].path = <<>>
                /\ pc[p] = "aborted"
          /\ last[p].ok =>
                last[p].path = PathAppend(wd[p].workdir_, Filename(last[p].path))

\* A report path with the annotation "foo" and a rejected ".foo".
C6_Witness ==
  /\ last[1].op = "source_coverage_report"
  /\ last[1].input = <<"f", "o", "o">>
  /\ last[1].ok
  /\ wd[1] = ScenarioIdentity

C6_WitnessRejected ==
  /\ last[1].op = "corpus_stats"
  /\ last[1].input = <<".", "f", "o", "o">>
  /\ ~last[1].ok

\* C8: for a shard index below 10^width, ShardPath is the group's prefix
\* followed by exactly width decimal digits that spell the index; in the
\* documented scenario the corpus path is /data/run1/corpus.000007.
C8_FixedWidth ==
  \A p \in Procs :
    (last[p].op \in ShardPathOps /\ last[p].index < Limit) =>
      LET pre == Files(last[p].group, wd[p]).prefix_
          path == last[p].path
          digits == SubSeq(path, Len(pre) + 1, Len(path))
      IN  /\ SubSeq(path, 1, Len(pre)) = pre
          /\ Len(digits) = kDigitsInShardIndex
          /\ AllDigits(digits)
          /\ ParseDigits(digits) = last[p].index
          /\ (wd[p] = ScenarioIdentity /\ last[p].group = "corpus"
                /\ last[p].index = 7)
               => path = <<"/", "d", "a", "t", "a", "/", "r", "u", "n", "1", "/",
                           "c", "o", "r", "p", "u", "s", ".",
                           "0", "0", "0", "0", "0", "7">>

\* The scenario's own corpus shard path has been computed.
C8_Witness ==
  /\ wd[1] = ScenarioIdentity
  /\ last[1].op = "MyShardPath"
  /\ last[1].group = "corpus"
  /\ last[1].index = 7

-----------------------------------------------------------------------------
(* Two builds that share a campaign: coverage directories and globs. *)

\* glob(3) matching of s[j..] against pattern[i..]: '*' matches any run of
\* characters other than '/', '?' one such character, anything else itself.
RECURSIVE GlobMatchFrom(_, _, _, _)
GlobMatchFrom(pattern, i, s, j) ==
  IF i > Len(pattern) THEN j > Len(s)
  ELSE IF pattern[i] = "*"
       THEN \/ GlobMatchFrom(pattern, i + 1, s, j)
            \/ /\ j <= Len(s)
               /\ s[j] # Slash
               /\ GlobMatchFrom(pattern, i, s, j + 1)
  ELSE /\ j <= Len(s)
       /\ \/ pattern[i] = s[j]
          \/ pattern[i] = "?" /\ s[j] # Slash
       /\ GlobMatchFrom(pattern, i + 1, s, j + 1)

GlobMatch(pattern, s) == GlobMatchFrom(pattern, 1, s, 1)

BuildRootDirs == {<<"d">>, <<"d", "/", "e">>}

BuildIdentities ==
  {WorkDir(r, b, h, 0) : r \in BuildRootDirs, b \in BinaryNames,
                         h \in BinaryHashes}

BuildShardIndices == {0, Pow10(kDigitsInShardIndex) - 1}

\* w.CoverageDirPath(), called by process p.
CallCoverageDirPath(p) ==
  /\ pc[p] = "running"
  /\ last' = [last EXCEPT ![p] =
       Call("CoverageDirPath", "none", 0, <<>>, TRUE, CoverageDirPath(wd[p]),
            NoId)]
  /\ UNCHANGED <<wd, pc, written, fs, enumerated>>

InitBuilds ==
  /\ wd \in [Procs -> BuildIdentities]
  /\ wd[1].workdir_ = <<"d">>
  /\ pc = [p \in Procs |-> "running"]
  /\ last = [p \in Procs |-> NoCall]
  /\ written = {}
  /\ fs = NoFs
  /\ enumerated = NoEnumeration

NextBuilds ==
  \/ \E p \in Procs : CallCoverageDirPath(p)
  \/ \E p \in Procs, g \in Groups, i \in BuildShardIndices : CallShardPath(p, g, i)
  \/ \E p \in Procs, g \in Groups : CallAllShardsGlob(p, g)

SpecBuilds == InitBuilds /\ [][NextBuilds]_vars

\* C5: the glob of a group matches every ShardPath of the same group and no
\* ShardPath of a group with a different prefix.
C5_GlobCorrectness ==
  \A p \in Procs, q \in Procs :
    (last[p].op = "AllShardsGlob" /\ last[q].op = "ShardPath") =>
      LET same == Files(last[p].group, wd[p]).prefix_
                    = Files(last[q].group, wd[q]).prefix_
      IN  GlobMatch(last[p].path, last[q].path) <=> same

\* C7: two builds in one root directory get the same coverage directory only
\* if binary name and binary hash are both equal, and the features paths of
\* two different builds never collide.
C7_OneCoverageDirPerBuild ==
  LET sameBuild == /\ wd[1].binary_name_ = wd[2].binary_name_
                   /\ wd[1].binary_hash_ = wd[2].binary_hash_
      featureGroups == {"features", "distilled_features"}
  IN  wd[1].workdir_ = wd[2].workdir_ =>
        /\ (last[1].op = "CoverageDirPath" /\ last[2].op = "CoverageDirPath"
              /\ last[1].path = last[2].path) => sameBuild
        /\ (last[1].op = "ShardPath" /\ last[2].op = "ShardPath"
              /\ last[1].group \in featureGroups
              /\ last[2].group \in featureGroups
              /\ last[1].path = last[2].path) => sameBuild

-----------------------------------------------------------------------------
(* Two shard processes of one build that write into one root directory. *)

WriteAnnotations == {<<>>, <<"0">>, <<".", "f", "o", "o">>}

WritesOf(p) == {x \in written : x.by = p}

\* Process p writes its own shard file of group g.
WriteShardFile(p, g) ==
  /\ pc[p] = "running"
  /\ Cardinality(WritesOf(p)) < MaxWrites
  /\ written' = written \cup {[path |-> MyShardPath(Files(g, wd[p])), by |-> p]}
  /\ UNCHANGED <<wd, pc, last, fs, enumerated>>

\* Process p writes a report of kind k; a rejected annotation aborts it
\* before anything is written.
WriteReport(p, k, annotation) ==
  LET r == ReportPath(k, wd[p], annotation)
  IN  /\ pc[p] = "running"
      /\ Cardinality(WritesOf(p)) < MaxWrites
      /\ IF r.ok
         THEN /\ written' = written \cup {[path |-> r.value, by |-> p]}
              /\ pc' = pc
         ELSE /\ written' = written
              /\ pc' = [pc EXCEPT ![p] = "aborted"]
      /\ UNCHANGED <<wd, last, fs, enumerated>>

\* The instrumented binary of process p is pointed at its raw profile path.
WriteRawProfile(p) ==
  /\ pc[p] = "running"
  /\ Cardinality(WritesOf(p)) < MaxWrites
  /\ written' = written
       \cup {[path |-> SourceBasedCoverageRawProfilePath(wd[p]), by |-> p]}
  /\ UNCHANGED <<wd, pc, last, fs, enumerated>>

InitShards ==
  /\ \E i \in ShardIndices, j \in ShardIndices :
       /\ i <= j
       /\ wd = <<WorkDir(<<"d">>, <<"t">>, <<"h">>, i),
                 WorkDir(<<"d">>, <<"t">>, <<"h">>, j)>>
  /\ pc = [p \in Procs |-> "running"]
  /\ last = [p \in Procs |-> NoCall]
  /\ written = {}
  /\ fs = NoFs
  /\ enumerated = NoEnumeration

NextShards ==
  \/ \E p \in Procs, g \in Groups : WriteShardFile(p, g)
  \/ \E p \in Procs, k \in ReportKinds, a \in WriteAnnotations :
       WriteReport(p, k, a)
  \/ \E p \in Procs : WriteRawProfile(p)

SpecShards == InitShards /\ [][NextShards]_vars

\* C4: two shard processes of one build and one root directory whose shard
\* indices differ never write the same path, whatever the order of their
\* writes.
C4_WriteSafety ==
  wd[1].my_shard_index_ # wd[2].my_shard_index_ =>
    \A x \in written, y \in written : x.by # y.by => x.path # y.path

\* Shards 0 and 10^width have both written their corpus shard file.
C4_Witness ==
  /\ wd[1].my_shard_index_ = 0
  /\ wd[2].my_shard_index_ = Limit
  /\ written = {[path |-> MyShardPath(CorpusFiles(wd[p])), by |-> p] : p \in Procs}

\* A shard with an annotated report next to one with a longer index.
C4_WitnessReports ==
  /\ wd[1].my_shard_index_ = Limit - 1
  /\ wd[2].my_shard_index_ = Limit
  /\ \E x \in written, y \in written :
       /\ x.by = 1 /\ y.by = 2
       /\ x.path = SourceBasedCoverageReportPath(wd[1], <<"0">>).value
       /\ y.path = SourceBasedCoverageReportPath(wd[2], <<>>).value

-----------------------------------------------------------------------------
(* Enumeration of the raw coverage profiles. *)

\* std::filesystem::directory_iterator(dir_path, ec): the entries directly
\* inside dir_path, or an error when the directory cannot be opened.
DirectoryIterator(f, dir_path) ==
  IF f.dir # "ok" THEN [error |-> TRUE, entries |-> {}]
  ELSE [error |-> FALSE, entries |-> {e \in f.entries : e.parent = dir_path}]

\* Takes every entry that exists for a regular file (exists() for
\* is_regular_file()).
IsExistingFile(e) == e.kind # "symlink_dangling"

\* directory_entry::is_regular_file(): the type of the file the entry
\* resolves to, symbolic links followed.
IsRegularFile(e) == e.kind \in {"regular", "symlink_to_regular"}

\* directory_entry::path()
EntryPath(e) == PathAppend(e.parent, e.name)

\* Treats a directory that cannot be opened as fatal (a CHECK on dir_error).
EnumerateAbortingOnError(w, f) ==
  LET dir_iter == DirectoryIterator(f, CoverageDirPath(w))
  IN  IF dir_iter.error
      THEN [ok |-> FALSE, dir_error |-> TRUE, raw_profiles |-> {}]
      ELSE [ok |-> TRUE, dir_error |-> FALSE,
            raw_profiles |->
              {EntryPath(e) : e \in
                 {x \in dir_iter.entries :
                    IsRegularFile(x) /\ Extension(EntryPath(x)) = S_profraw}}]

\* WorkDir::EnumerateRawCoverageProfiles() on filesystem f.
EnumerateRawCoverageProfiles(w, f) ==
  LET dir_path == CoverageDirPath(w)
      dir_iter == DirectoryIterator(f, dir_path)
  IN  IF dir_iter.error
      THEN [ok |-> TRUE, dir_error |-> TRUE, raw_profiles |-> {}]
      ELSE [ok |-> TRUE, dir_error |-> FALSE,
            raw_profiles |->
              {EntryPath(e) : e \in
                 {x \in dir_iter.entries :
                    IsRegularFile(x) /\ Extension(EntryPath(x)) = S_profraw}}]

\* The module signature the instrumentation runtime puts in place of "%m".
ModuleSignature == <<"5", "_", "0">>

\* The name the runtime gives the profile of a path with a "%m" in it.
RECURSIVE ExpandModuleSignature(_)
ExpandModuleSignature(path) ==
  IF Len(path) < 2 THEN path
  ELSE IF path[1] = "%" /\ path[2] = "m"
       THEN ModuleSignature \o SubSeq(path, 3, Len(path))
  ELSE <<path[1]>> \o ExpandModuleSignature(Tail(path))

SubDirName == <<"s">>

EnumIdentities == {WorkDir(<<"d">>, <<"t">>, <<"h">>, 0)}

\* What else may appear in the tree: [parent, name, kind].
OtherEntries(w) ==
  LET cov == CoverageDirPath(w)
      x_profraw == <<"x">> \o S_profraw
  IN  {[parent |-> cov, name |-> x_profraw, kind |-> k] :
         k \in {"regular", "directory", "symlink_to_regular", "symlink_dangling"}}
        \cup {[parent |-> cov, name |-> S_profraw, kind |-> "regular"],
              [parent |-> cov, name |-> SubDirName, kind |-> "directory"],
              [parent |-> PathAppend(cov, SubDirName), name |-> x_profraw,
               kind |-> "regular"],
              [parent |-> w.workdir_, name |-> x_profraw, kind |-> "regular"]}

\* An entry can be created where its directory exists and the name is free.
CanCreate(e) ==
  LET cov == CoverageDirPath(wd[1])
  IN  /\ Cardinality(fs.entries) < MaxEntries
      /\ \A x \in fs.entries : ~(x.parent = e.parent /\ x.name = e.name)
      /\ e.parent = cov => fs.dir \in {"ok", "unreadable"}
      /\ e.parent = PathAppend(cov, SubDirName) =>
           [parent |-> cov, name |-> SubDirName, kind |-> "directory"]
             \in fs.entries

MakeCoverageDir ==
  /\ fs.dir = "missing"
  /\ fs' = [fs EXCEPT !.dir = "ok"]
  /\ UNCHANGED <<wd, pc, last, written, enumerated>>

\* Something that is not a directory takes the coverage directory's place.
MakeCoverageDirAFile ==
  /\ fs.dir = "missing"
  /\ fs' = [fs EXCEPT !.dir = "notdir"]
  /\ UNCHANGED <<wd, pc, last, written, enumerated>>

RemoveCoverageDir ==
  /\ fs.dir # "missing"
  /\ fs' = [dir |-> "missing",
            entries |-> {e \in fs.entries : e.parent = wd[1].workdir_}]
  /\ UNCHANGED <<wd, pc, last, written, enumerated>>

RevokeAccess ==
  /\ fs.dir = "ok"
  /\ fs' = [fs EXCEPT !.dir = "unreadable"]
  /\ UNCHANGED <<wd, pc, last, written, enumerated>>

GrantAccess ==
  /\ fs.dir = "unreadable"
  /\ fs' = [fs EXCEPT !.dir = "ok"]
  /\ UNCHANGED <<wd, pc, last, written, enumerated>>

\* The instrumentation runtime of shard i of the same build creates its raw
\* profile at SourceBasedCoverageRawProfilePath(), "%m" expanded.
RuntimeWritesRawProfile(i) ==
  LET shard == [wd[1] EXCEPT !.my_shard_index_ = i]
      path == ExpandModuleSignature(SourceBasedCoverageRawProfilePath(shard))
      e == [parent |-> ParentPath(path), name |-> Filename(path),
            kind |-> "regular"]
  IN  /\ CanCreate(e)
      /\ fs' = [fs EXCEPT !.entries = @ \cup {e}]
      /\ UNCHANGED <<wd, pc, last, written, enumerated>>

\* The merge tool writes the indexed profile.
MergeWritesIndexedProfile ==
  LET path == SourceBasedCoverageIndexedProfilePath(wd[1])
      e == [parent |-> ParentPath(path), name |-> Filename(path),
            kind |-> "regular"]
  IN  /\ CanCreate(e)
      /\ fs' = [fs EXCEPT !.entries = @ \cup {e}]
      /\ UNCHANGED <<wd, pc, last, written, enumerated>>

CreateOtherEntry ==
  \E e \in OtherEntries(wd[1]) :
    /\ CanCreate(e)
    /\ fs' = [fs EXCEPT !.entries = @ \cup {e}]
    /\ UNCHANGED <<wd, pc, last, written, enumerated>>

\* Process 1 calls EnumerateRawCoverageProfiles().
CallEnumerateRawCoverageProfiles ==
  LET r == EnumerateRawCoverageProfiles(wd[1], fs)
  IN  /\ pc[1] = "running"
      /\ enumerated' =
           [called |-> TRUE, ok |-> r.ok, dir_error |-> r.dir_error,
            earlier_error |-> enumerated.earlier_error \/ enumerated.dir_error,
            raw_profiles |-> r.raw_profiles, snapshot |-> fs]
      /\ pc' = [pc EXCEPT ![1] = IF r.ok THEN "running" ELSE "aborted"]
      /\ UNCHANGED <<wd, last, written, fs>>

InitEnum ==
  /\ \E w \in EnumIdentities : wd = [p \in Procs |-> w]
  /\ pc = [p \in Procs |-> "running"]
  /\ last = [p \in Procs |-> NoCall]
  /\ written = {}
  /\ fs = NoFs
  /\ enumerated = NoEnumeration

NextEnum ==
  \/ MakeCoverageDir
  \/ MakeCoverageDirAFile
  \/ RemoveCoverageDir
  \/ RevokeAccess
  \/ GrantAccess
  \/ \E i \in 0..1 : RuntimeWritesRawProfile(i)
  \/ MergeWritesIndexedProfile
  \/ CreateOtherEntry
  \/ CallEnumerateRawCoverageProfiles

SpecEnum == InitEnum /\ [][NextEnum]_vars

\* The raw profiles a snapshot holds: the regular files directly inside the
\* coverage directory whose name is something followed by ".profraw".
ProfilesIn(snapshot, cov) ==
  {PathAppend(cov, e.name) : e \in
     {x \in snapshot.entries :
        /\ x.parent = cov
        /\ x.kind \in {"regular", "symlink_to_regular"}
        /\ Len(x.name) > Len(S_profraw)
        /\ SubSeq(x.name, Len(x.name) - Len(S_profraw) + 1, Len(x.name))
             = S_profraw}}

\* C9: when the coverage directory is missing or cannot be opened, the
\* enumeration returns nothing and the process goes on, whatever else the
\* filesystem holds; a call made after an earlier failure, with the directory
\* in place, returns what a first call would.
C9_EnumerationDegradation ==
  /\ (enumerated.called /\ enumerated.snapshot.dir # "ok") =>
        /\ enumerated.raw_profiles = {}
        /\ enumerated.ok
        /\ enumerated.dir_error
        /\ pc[1] = "running"
  /\ (enumerated.called /\ enumerated.earlier_error
        /\ enumerated.snapshot.dir = "ok") =>
        /\ enumerated.ok
        /\ ~enumerated.dir_error
        /\ enumerated.raw_profiles
             = ProfilesIn(enumerated.snapshot, CoverageDirPath(wd[1]))

\* An unreadable directory that holds a profile has been enumerated.
C9_Witness ==
  /\ enumerated.called
  /\ enumerated.snapshot.dir = "unreadable"
  /\ ProfilesIn(enumerated.snapshot, CoverageDirPath(wd[1])) # {}

\* A call after an earlier failure has found a profile.
C9_WitnessLater ==
  /\ enumerated.called
  /\ enumerated.earlier_error
  /\ enumerated.snapshot.dir = "ok"
  /\ enumerated.raw_profiles # {}

\* The entry of the snapshot that the runtime of shard i has created.
RuntimeProfile(i) ==
  ExpandModuleSignature(
    SourceBasedCoverageRawProfilePath([wd[1] EXCEPT !.my_shard_index_ = i]))

====
